---- MODULE Spec2Model ----
(***************************************************************************)
(* TellMeTruth: the idempotent multi-stage media pipeline.                 *)
(*                                                                         *)
(*   SpecDownload  the download functions of email_video_runner.py,        *)
(*                 yt_tiktok_downloader.py and instagram_downloader.py     *)
(*                 running as concurrent calls against one ledger          *)
(*                 (the sqlite table `downloads`).                         *)
(*   SpecPool      process_and_package_videos.py: repeated scans of the    *)
(*                 downloads directory by process_videos, whose worker     *)
(*                 pool runs process_single_video once per video; three    *)
(*                 videos, few injected failures.                          *)
(*   SpecScan      the same program over two videos, with more injected    *)
(*                 failures and file changes per behaviour.                *)
(*   SpecMessages  email_video_runner.process_messages run again and       *)
(*                 again over incoming mail, writing the URL log, the      *)
(*                 ledger and the hand-off list.                           *)
(*   SpecConsumer  transcribe_downloaded_videos.py, the consumer of the    *)
(*                 hand-off list, run again and again beside the scan.     *)
(*   SpecConverge  the scan as a sweep over videos nobody changes, with    *)
(*                 transient failures and fair scheduling.                 *)
(*   SpecNames     calls of safe_filename, one per behaviour.              *)
(*   SpecDedup     runs of deduplicate_by_md5, one per behaviour.          *)
(***************************************************************************)
EXTENDS Integers, Sequences, FiniteSets, TLC

VARIABLES
    ledger,     \* the rows of table `downloads`, in insertion (id) order
    calls,      \* each download call: its arguments, locals and position
    disk,       \* the output directory: whether it exists, the files in it
    dbFaults,   \* how many storage errors (sqlite3.Error) have been injected
    vid,        \* each video: its stat, its sidecars, its worker's position
    pool,       \* process_videos: its position and max_workers
    env,        \* the scan's environment: failures and file changes injected
    run,        \* process_messages: position, messages left, factcheck_dirs
    urlLog,     \* the lines of url_logfile
    handoff,    \* the lines of factcheck_dirs_for_transcription.txt
    cons,       \* transcribe_downloaded_videos.main: position, list, videos left
    fname,      \* one call of safe_filename: its arguments and its result
    tree        \* one run of deduplicate_by_md5: the files below target_dir

dlVars == <<calls, disk, dbFaults>>
plVars == <<vid, pool, env>>
msgVars == <<run, urlLog, handoff>>
csVars == <<cons>>
utVars == <<fname, tree>>
vars == <<ledger, calls, disk, dbFaults, vid, pool, env, run, urlLog, handoff, cons,
          fname, tree>>

----------------------------------------------------------------------------
(* Bounds and input sets                                                   *)

MaxRetries == 2          \* `retries` of a call is drawn from 1..MaxRetries
MaxDbFaults == 1         \* storage errors injected per behaviour

CallIds == {"c1", "c2"}
Urls == {"u1", "u2"}
Titles == {"t1", "t2"}
Kinds == {"runner", "yt_tiktok", "instagram"}

\* What one attempt of the fetch operation can do.
\*   ok        extract_info returned and the file is on disk / both HTTP
\*             requests returned (instagram writes the file in a later step)
\*   neterr    yt_dlp DownloadError, requests.RequestException
\*   othererr  any other Exception (AttributeError on a JSON list, OSError on open)
\*   badshape  instagram only: HTTP 200 whose JSON lacks status/videoUrl
Outcomes(kind) ==
    IF kind = "instagram" THEN {"ok", "neterr", "othererr", "badshape"}
    ELSE {"ok", "neterr", "othererr"}

----------------------------------------------------------------------------
(* Ledger: utils/common.py and the copies in each downloader               *)

RowsFor(table, url) == {i \in 1..Len(table) : table[i].url = url}

\* SELECT 1 FROM downloads WHERE url = ?
is_url_downloaded(table, url) == RowsFor(table, url) # {}

\* INSERT OR REPLACE: the row of a known url is replaced by the new one
InsertOrReplace(table, url, title) ==
    IF RowsFor(table, url) # {}
    THEN [i \in 1..Len(table) |->
            IF table[i].url = url THEN [url |-> url, title |-> title] ELSE table[i]]
    ELSE Append(table, [url |-> url, title |-> title])

\* INSERT without the UNIQUE constraint on url
InsertAlways(table, url, title) == Append(table, [url |-> url, title |-> title])

\* INSERT OR IGNORE INTO downloads (url, title): url is UNIQUE NOT NULL
InsertOrIgnore(table, url, title) ==
    IF RowsFor(table, url) # {} THEN table
    ELSE Append(table, [url |-> url, title |-> title])

----------------------------------------------------------------------------
(* File names                                                              *)

\* get_unique_filepath: base.mp4, else base_1.mp4, base_2.mp4, ...
RECURSIVE UniqueFrom(_, _, _)
UniqueFrom(files, base, n) ==
    IF <<base, n>> \notin files THEN <<base, n>>
    ELSE UniqueFrom(files, base, n + 1)

get_unique_filepath(files, base) == UniqueFrom(files, base, 0)

----------------------------------------------------------------------------
(* One download call                                                       *)

\* final_path before get_unique_filepath has returned
NoPath == <<>>

IdleCall ==
    [pc |-> "idle", kind |-> "runner", url |-> "u1", retries |-> 1,
     attempt |-> 0, fetches |-> 0, fails |-> 0, sleeps |-> 0,
     title |-> "t1", result |-> "none", rec |-> "none", gateHit |-> FALSE,
     logged |-> 0, lastErr |-> "none", retErr |-> "none", path |-> NoPath]

\* A gate that is consulted but does not stop the call
GateNeverSkips(table, url) == FALSE

\* if is_url_downloaded(url): log; return True
GateSkips(table, url) == is_url_downloaded(table, url)

\* Does the except clause of the retry loop catch this failure?
\*   runner, yt_tiktok:  except Exception
\*   instagram:          except requests.RequestException
\* (badshape raises nothing: the else branch logs a warning and falls through)
Catches(kind, outcome) ==
    IF kind = "instagram" THEN outcome \in {"neterr", "badshape"}
    ELSE TRUE

\* the loop never sleeps
NoBackoff(attempt, retries) == FALSE

\* if attempt < retries: time.sleep(random.uniform(1, 3))
SleepsAfter(attempt, retries) == attempt < retries

\* The call after an attempt that failed with `outcome`.
\*   not caught: the exception leaves the function, carrying the error
\*   caught:     logging.error(f"... {exc}") (badshape: logging.warning),
\*               then the backoff or, after the last attempt,
\*               logging.error("All N attempts failed ... Giving up.");
\*               return False, a bare bool that carries no error
AfterFailure(c, outcome) ==
    IF ~Catches(c.kind, outcome)
    THEN [c EXCEPT !.pc = "done", !.result = "raised", !.retErr = outcome]
    ELSE LET d == [c EXCEPT !.logged = @ + 1, !.lastErr = outcome] IN
         IF SleepsAfter(d.attempt, d.retries)
         THEN [d EXCEPT !.pc = "backoff"]
         ELSE IF d.attempt < d.retries
              THEN [d EXCEPT !.pc = "fetch", !.attempt = @ + 1]
              ELSE [d EXCEPT !.pc = "done", !.result = "false"]

\* Entry of download_with_ytdlp / download_video_yt_tiktok /
\* download_instagram_video up to the retry loop: the ledger gate, then
\* (runner) os.makedirs, (yt_tiktok) import yt_dlp.
Enter(p) ==
    /\ calls[p].pc = "idle"
    /\ \E kind \in Kinds, url \in Urls, retries \in 1..MaxRetries, hasYtDlp \in BOOLEAN :
         LET c0 == [IdleCall EXCEPT !.kind = kind, !.url = url, !.retries = retries]
         IN  IF GateSkips(ledger, url)
             THEN /\ hasYtDlp
                  /\ calls' = [calls EXCEPT ![p] =
                         [c0 EXCEPT !.pc = "done", !.result = "true", !.gateHit = TRUE]]
                  /\ UNCHANGED disk
             ELSE IF kind = "yt_tiktok" /\ ~hasYtDlp
             THEN /\ calls' = [calls EXCEPT ![p] =
                         [c0 EXCEPT !.pc = "done", !.result = "false"]]
                  /\ UNCHANGED disk
             ELSE /\ hasYtDlp
                  /\ calls' = [calls EXCEPT ![p] = [c0 EXCEPT !.pc = "fetch", !.attempt = 1]]
                  /\ disk' = IF kind = "runner" THEN [disk EXCEPT !.dir = TRUE] ELSE disk
    /\ UNCHANGED <<utVars, ledger, dbFaults, plVars, msgVars, csVars>>

\* an attempt that goes on to record whatever the fetch did
RecordsRegardless(outcome) == TRUE

\* The statements after the fetch (title, record_successful_download,
\* return True) are reached only when extract_info returned, or when both
\* requests succeeded and the file was written.
ReachesRecord(outcome) == outcome = "ok"

\* One attempt: ydl.extract_info(url, download=True), which also writes the
\* file, or (instagram) the two requests.get calls and
\* final_path = get_unique_filepath(output_dir, base_name, ".mp4").
Fetch(p) ==
    /\ calls[p].pc = "fetch"
    /\ \E outcome \in Outcomes(calls[p].kind), title \in Titles :
         LET c == [calls[p] EXCEPT !.fetches = @ + 1,
                                   !.fails = IF outcome = "ok" THEN @ ELSE @ + 1]
         IN
         /\ outcome # "ok" => title = "t1"
         /\ calls' = [calls EXCEPT ![p] =
                IF ReachesRecord(outcome)
                THEN IF c.kind = "instagram"
                     THEN [c EXCEPT !.pc = "write", !.title = title,
                                    !.path = get_unique_filepath(disk.files, title)]
                     ELSE [c EXCEPT !.pc = "record", !.title = title]
                ELSE AfterFailure(c, outcome)]
         /\ disk' = IF outcome = "ok"
                    THEN [dir |-> TRUE,
                          files |-> IF c.kind = "instagram" THEN disk.files
                                    ELSE disk.files \cup {<<title, 0>>}]
                    ELSE IF c.kind = "yt_tiktok" THEN [disk EXCEPT !.dir = TRUE] ELSE disk
    /\ UNCHANGED <<utVars, ledger, dbFaults, plVars, msgVars, csVars>>

\* instagram: with open(final_path, "wb") as f: f.write(video_resp.content).
\* Mode "wb" creates the file or truncates the one that is there.
Write(p) ==
    /\ calls[p].pc = "write"
    /\ disk' = [disk EXCEPT !.files = @ \cup {calls[p].path}]
    /\ calls' = [calls EXCEPT ![p] = [@ EXCEPT !.pc = "record"]]
    /\ UNCHANGED <<utVars, ledger, dbFaults, plVars, msgVars, csVars>>

\* record_successful_download(url, title), then return True.  A storage error
\* (sqlite3.Error) raised by execute or commit is caught inside the runner's
\* copy; one raised by sqlite3.connect, and any raised in the other two
\* copies, propagates into the retry loop of the caller.
Record(p) ==
    /\ calls[p].pc = "record"
    /\ LET c == calls[p] IN
       \/ /\ ledger' = InsertOrIgnore(ledger, c.url, c.title)
          /\ calls' = [calls EXCEPT ![p] =
                 [c EXCEPT !.pc = "done", !.result = "true",
                           !.rec = IF is_url_downloaded(ledger, c.url)
                                   THEN "ignored" ELSE "inserted"]]
          /\ UNCHANGED dbFaults
       \/ /\ dbFaults < MaxDbFaults
          /\ dbFaults' = dbFaults + 1
          /\ UNCHANGED ledger
          /\ \E where \in {"connect", "execute"} :
             calls' = [calls EXCEPT ![p] =
                 IF c.kind = "runner" /\ where = "execute"
                 THEN [c EXCEPT !.pc = "done", !.result = "true", !.rec = "fault"]
                 ELSE AfterFailure([c EXCEPT !.rec = "fault"], "othererr")]
    /\ UNCHANGED <<utVars, disk, plVars, msgVars, csVars>>

\* time.sleep(random.uniform(1, 3)), then the next iteration
Backoff(p) ==
    /\ calls[p].pc = "backoff"
    /\ calls' = [calls EXCEPT ![p] =
           [@ EXCEPT !.pc = "fetch", !.sleeps = @ + 1, !.attempt = @ + 1]]
    /\ UNCHANGED <<utVars, ledger, disk, dbFaults, plVars, msgVars, csVars>>

DownloadsAtRest ==
    /\ ledger = <<>>
    /\ calls = [p \in CallIds |-> IdleCall]
    /\ disk = [dir |-> FALSE, files |-> {}]
    /\ dbFaults = 0

----------------------------------------------------------------------------
(* The scan: process_and_package_videos.py                                 *)

Videos == {"a", "b", "c"}        \* the directory of SpecPool: a.mp4, b.mp4, c.mp4
TempFile == "p"                  \* b.mp4.part, a download still being written
FewVideos == {"a", "b", TempFile}    \* the directory of SpecScan
DefaultWorkers == 2              \* max_workers=2; a run uses 1..DefaultWorkers
PoolFaults == 1                  \* SpecPool: failures of ffmpeg, whisper, file I/O
PoolMods == 1                    \* SpecPool: changes an external writer makes
MaxFaults == 2                   \* SpecScan: failures of ffmpeg, whisper, file I/O
MaxMods == 1                     \* SpecScan: changes an external writer makes

\* What an external writer can do to a file's (st_size, st_mtime):
\*   append   more bytes, later mtime
\*   touch    same bytes, later mtime
\*   rewrite  other size, mtime restored (os.utime, copy with timestamps)
Changed(stat, how) ==
    CASE how = "append"  -> [size |-> stat.size + 1, mtime |-> stat.mtime + 1]
      [] how = "touch"   -> [size |-> stat.size, mtime |-> stat.mtime + 1]
      [] how = "rewrite" -> [size |-> stat.size + 1, mtime |-> stat.mtime]

\* The stat of a file that is gone: file_path.stat() raises FileNotFoundError.
NoFile == [size |-> -1, mtime |-> -1]

Mp4Suffix == <<".", "m", "p", "4">>
PartSuffix == <<".", "p", "a", "r", "t">>

\* The name of each file of the directory.
FileName ==
    [v \in Videos \cup {TempFile} |->
        IF v = TempFile THEN <<"b">> \o Mp4Suffix \o PartSuffix
        ELSE <<v>> \o Mp4Suffix]

\* str.endswith(suffix)
endswith(str, suffix) ==
    Len(str) >= Len(suffix)
        /\ SubSeq(str, Len(str) - Len(suffix) + 1, Len(str)) = suffix

\* base_dir.rglob("*.mp4"): the files present whose name ends in .mp4
rglob(vs) ==
    {v \in DOMAIN vs : vs[v].stat # NoFile /\ endswith(FileName[v], Mp4Suffix)}

\* a test that takes every file for a temporary one
TempSkipsAll(name) == TRUE

\* if str(video).endswith(".part"): log "Skipping temporary/partial file."
IsTemp(name) == endswith(name, PartSuffix)

\* A sidecar is absent, partial (opened for writing, content incomplete) or
\* complete; Path.exists() is true of the last two.
Exists(f) == f # "absent"

IdleVideo ==
    [stat |-> [size |-> 1, mtime |-> 1], s0 |-> [size |-> 1, mtime |-> 1],
     wav |-> "absent", txt |-> "absent", json |-> "absent",
     pc |-> "idle", outcome |-> "none", err |-> "none", log |-> "none",
     tasks |-> 0, started |-> 0, ext |-> 0, wr |-> 0]

\* The directory holds `found` videos without sidecars; the environment
\* may still inject `faults` failures and `mods` file changes.
PoolAtRest(found, faults, mods) ==
    /\ vid = [v \in found |-> IdleVideo]
    /\ pool = [pc |-> "idle", max_workers |-> 1, exit |-> 0]
    /\ env = [faults |-> faults, mods |-> mods]

\* only the modification time is compared
StableByMtime(first, second) == second.mtime = first.mtime

\* only the size is compared
StableBySize(first, second) ==
    first # NoFile /\ second # NoFile /\ second.size = first.size

\* the samples are compared without noticing that a stat failed
StableUnchecked(first, second) ==
    (second.size = first.size) /\ (second.mtime = first.mtime)

\* is_file_stable: (current.st_size == initial_size) and
\* (current.st_mtime == initial_mtime); a stat that raises is caught
\* (except Exception: logging.warning(...); return False)
is_file_stable(first, second) ==
    IF first = NoFile \/ second = NoFile THEN FALSE
    ELSE (second.size = first.size) /\ (second.mtime = first.mtime)

\* the package sidecar is not consulted
NeverTerminal(json) == FALSE

\* if jsonf.exists(): log "Already fully processed, skipping."; return
AlreadyPackaged(json) == Exists(json)

\* a worker that returns from the stability test without a log line
AfterStabilitySilent(r, stable) ==
    IF ~stable
    THEN [r EXCEPT !.pc = "done", !.outcome = "deferred", !.s0 = IdleVideo.s0]
    ELSE IF AlreadyPackaged(r.json)
         THEN [r EXCEPT !.pc = "done", !.outcome = "already", !.log = "already",
                        !.s0 = IdleVideo.s0]
         ELSE [r EXCEPT !.pc = "extract", !.s0 = IdleVideo.s0]

\* process_single_video after is_file_stable has returned `stable`: the
\* "Not stable" return, the jsonf.exists() return, or on to extract_audio.
\* Each return is preceded by its logging.info line.
AfterStability(r, stable) ==
    IF ~stable
    THEN [r EXCEPT !.pc = "done", !.outcome = "deferred", !.log = "unstable",
                   !.s0 = IdleVideo.s0]
    ELSE IF AlreadyPackaged(r.json)
         THEN [r EXCEPT !.pc = "done", !.outcome = "already", !.log = "already",
                        !.s0 = IdleVideo.s0]
         ELSE [r EXCEPT !.pc = "extract", !.s0 = IdleVideo.s0]

InFlight(vs) == {v \in DOMAIN vs : vs[v].pc \notin {"idle", "queued", "done"}}

\* a pool that starts every submitted task at once
StartsUnbounded(vs, max_workers) == TRUE

\* ThreadPoolExecutor(max_workers=max_workers): a queued task starts only
\* when fewer than max_workers tasks are running
CanStart(vs, max_workers) == Cardinality(InFlight(vs)) < max_workers

\* returning as soon as no task is left in the queue
QueueEmpty(vs) == \A v \in DOMAIN vs : vs[v].pc # "queued"

\* for future in as_completed(futures): future.result(), inside the with
\* block, whose exit also waits for every task: all futures are done
AllCompleted(vs) == \A v \in DOMAIN vs : vs[v].pc # "idle" => vs[v].pc = "done"

\* a failure that shuts the pool down and drops the tasks still queued
ItemFailedCancels(vs, v, r) ==
    [w \in DOMAIN vs |->
        IF w = v THEN [r EXCEPT !.pc = "done", !.outcome = "failed"]
        ELSE IF vs[w].pc = "queued"
             THEN [vs[w] EXCEPT !.pc = "done", !.outcome = "cancelled"]
             ELSE vs[w]]

\* extract_audio logs and returns False; any other Exception is caught and
\* logged by process_single_video itself (except Exception as e).  The
\* worker returns normally and no other task is touched.
ItemFailed(vs, v, r) ==
    [vs EXCEPT ![v] = [r EXCEPT !.pc = "done", !.outcome = "failed"]]

\* An external step that succeeds leaves env alone; one that fails is an
\* injected failure.
Injected(r) ==
    IF r = "ok" THEN UNCHANGED env
    ELSE env.faults > 0 /\ env' = [env EXCEPT !.faults = @ - 1]

\* every discovered video is submitted twice
SubmitsTwice(vs, v) == IF v \in rglob(vs) THEN 2 ELSE 0

\* futures = [executor.submit(process_single_video, video, ...) for video
\* in video_files]: one task per path that rglob yielded
Submissions(vs, v) == IF v \in rglob(vs) THEN 1 ELSE 0

\* an exit status that counts the failed items
ExitCodeCountsFailures(vs) ==
    IF \E v \in DOMAIN vs : vs[v].outcome = "failed" THEN 1 ELSE 0

\* process_videos returns None and the script ends: exit status 0,
\* whatever the workers logged
ExitCode(vs) == 0

\* process_videos: check_prerequisites, discovery, submission of one task
\* per video.  It may be run again and again (a cron-style sweep).
ProcessVideos ==
    /\ pool.pc \in {"idle", "returned", "aborted"}
    /\ \E mw \in 1..DefaultWorkers, prereq \in BOOLEAN :
         IF ~prereq
         THEN /\ mw = 1
              /\ pool' = [pc |-> "aborted", max_workers |-> 1, exit |-> 1]
              /\ UNCHANGED vid
         ELSE /\ pool' = [pc |-> "running", max_workers |-> mw, exit |-> 0]
              /\ vid' = [v \in DOMAIN vid |->
                    [vid[v] EXCEPT !.pc = IF Submissions(vid, v) > 0 THEN "queued" ELSE "idle",
                                   !.tasks = Submissions(vid, v), !.started = 0,
                                   !.outcome = "none", !.err = "none", !.log = "none",
                                   !.ext = 0, !.wr = 0]]
    /\ UNCHANGED <<utVars, env, ledger, dlVars, msgVars, csVars>>

\* A worker takes the task: process_single_video up to the sleep inside
\* is_file_stable: the .part test, then the first stat; if that raises,
\* is_file_stable returns at once.
Start(v) ==
    /\ v \in DOMAIN vid
    /\ pool.pc = "running"
    /\ vid[v].tasks > 0
    /\ CanStart(vid, pool.max_workers)
    /\ LET r == [vid[v] EXCEPT !.tasks = @ - 1, !.started = @ + 1] IN
       vid' = [vid EXCEPT ![v] =
           IF r.pc # "queued" THEN r
           ELSE IF IsTemp(FileName[v])
           THEN [r EXCEPT !.pc = "done", !.outcome = "skipped", !.log = "temp"]
           ELSE IF r.stat = NoFile
                THEN AfterStability(r, is_file_stable(r.stat, r.stat))
                ELSE [r EXCEPT !.pc = "window", !.s0 = r.stat]]
    /\ UNCHANGED <<utVars, pool, env, ledger, dlVars, msgVars, csVars>>

\* The file is removed after discovery: before the first stat or during
\* the window.
Delete(v) ==
    /\ v \in DOMAIN vid
    /\ vid[v].pc \in {"queued", "window"}
    /\ vid[v].stat # NoFile
    /\ env.mods > 0
    /\ vid' = [vid EXCEPT ![v].stat = NoFile]
    /\ env' = [env EXCEPT !.mods = @ - 1]
    /\ UNCHANGED <<utVars, pool, ledger, dlVars, msgVars, csVars>>

\* An external writer changes the file during the window.  (Only the two
\* samples are ever read, so changes outside a window decide nothing.)
Modify(v) ==
    /\ v \in DOMAIN vid
    /\ vid[v].pc = "window"
    /\ vid[v].stat # NoFile
    /\ env.mods > 0
    /\ \E how \in {"append", "touch", "rewrite"} :
         vid' = [vid EXCEPT ![v].stat = Changed(@, how)]
    /\ env' = [env EXCEPT !.mods = @ - 1]
    /\ UNCHANGED <<utVars, pool, ledger, dlVars, msgVars, csVars>>

\* After time.sleep(stable_seconds): the second stat and the comparison,
\* then the jsonf.exists() test.
Sample(v) ==
    /\ v \in DOMAIN vid
    /\ vid[v].pc = "window"
    /\ vid' = [vid EXCEPT ![v] =
           AfterStability(vid[v], is_file_stable(vid[v].s0, vid[v].stat))]
    /\ UNCHANGED <<utVars, pool, env, ledger, dlVars, msgVars, csVars>>

\* the audio is taken to be there without looking
AudioAssumed(wav) == TRUE

\* if audio_path.exists(): log "Audio already exists"; return True
AudioAlreadyExists(wav) == Exists(wav)

\* extract_audio: skip if the .wav exists, else run ffmpeg.
\*   exit          CalledProcessError, no output file left
\*   exit_partial  CalledProcessError, an incomplete output file left
\*   oserror       subprocess.run itself raises
Extract(v) ==
    /\ v \in DOMAIN vid
    /\ vid[v].pc = "extract"
    /\ IF AudioAlreadyExists(vid[v].wav)
       THEN vid' = [vid EXCEPT ![v].pc = "transcribe"] /\ UNCHANGED env
       ELSE \E r \in {"ok", "exit", "exit_partial", "oserror"} :
              LET c == [vid[v] EXCEPT !.ext = @ + 1] IN
              /\ Injected(r)
              /\ vid' = CASE r = "ok" ->
                            [vid EXCEPT ![v] = [c EXCEPT !.wav = "complete",
                                                !.wr = @ + 1, !.pc = "transcribe"]]
                       [] r = "exit_partial" ->
                            ItemFailed(vid, v, [c EXCEPT !.wav = "partial", !.wr = @ + 1,
                                                         !.err = "ffmpeg",
                                                         !.log = "extract_failed"])
                       [] r = "exit" ->
                            ItemFailed(vid, v, [c EXCEPT !.err = "ffmpeg",
                                                         !.log = "extract_failed"])
                       [] OTHER ->
                            ItemFailed(vid, v, [c EXCEPT !.err = "oserror",
                                                         !.log = "unexpected"])
    /\ UNCHANGED <<utVars, pool, ledger, dlVars, msgVars, csVars>>

\* a transcriber that runs again whether or not the transcript is there
TranscriptNeverExists(txt) == FALSE

\* if transcript_path.exists(): log "Transcript already exists"; return True
TranscriptAlreadyExists(txt) == Exists(txt)

\* a transcriber that opens its output file before it calls Whisper
TranscribeOpensFirst(c, r) ==
    CASE r = "ok" -> [c EXCEPT !.txt = "complete", !.wr = @ + 1]
      [] r = "write_fail" -> [c EXCEPT !.txt = "partial", !.wr = @ + 1, !.err = "txt_write"]
      [] r = "raise" -> [c EXCEPT !.txt = "partial", !.wr = @ + 1, !.err = "whisper"]

\* transcribe_audio past the exists() test: load the model, transcribe,
\* then open(transcript_path, "w") and write the text.
\*   raise       load_model or transcribe raises: nothing was opened
\*   write_fail  the write raises after open(transcript_path, "w")
transcribe_audio(c, r) ==
    CASE r = "ok" -> [c EXCEPT !.txt = "complete", !.wr = @ + 1]
      [] r = "write_fail" -> [c EXCEPT !.txt = "partial", !.wr = @ + 1, !.err = "txt_write"]
      [] r = "raise" -> [c EXCEPT !.err = "whisper"]

\* transcribe_audio as called by process_single_video: skip if the .txt
\* exists; an exception goes to the worker's except Exception.
Transcribe(v) ==
    /\ v \in DOMAIN vid
    /\ vid[v].pc = "transcribe"
    /\ IF TranscriptAlreadyExists(vid[v].txt)
       THEN vid' = [vid EXCEPT ![v].pc = "package"] /\ UNCHANGED env
       ELSE \E r \in {"ok", "raise", "write_fail"} :
              LET c == transcribe_audio([vid[v] EXCEPT !.ext = @ + 1], r) IN
              /\ Injected(r)
              /\ vid' = IF r = "ok" THEN [vid EXCEPT ![v] = [c EXCEPT !.pc = "package"]]
                        ELSE ItemFailed(vid, v, [c EXCEPT !.log = "unexpected"])
    /\ UNCHANGED <<utVars, pool, ledger, dlVars, msgVars, csVars>>

\* package_json: read the transcript, build the record, write the .json.
\*   read_fail   reading the transcript raises
\*   write_fail  json.dump raises after open(json_path, "w")
Package(v) ==
    /\ v \in DOMAIN vid
    /\ vid[v].pc = "package"
    /\ \E r \in {"ok", "read_fail", "write_fail"} :
         /\ Injected(r)
         /\ vid' = CASE r = "ok" ->
                       [vid EXCEPT ![v] = [@ EXCEPT !.json = "complete", !.wr = @ + 1,
                                           !.pc = "done", !.outcome = "packaged",
                                           !.log = "wrote"]]
                  [] r = "write_fail" ->
                       ItemFailed(vid, v, [vid[v] EXCEPT !.json = "partial", !.wr = @ + 1,
                                                         !.err = "json_write",
                                                         !.log = "unexpected"])
                  [] OTHER -> ItemFailed(vid, v, [vid[v] EXCEPT !.err = "read",
                                                                !.log = "unexpected"])
    /\ UNCHANGED <<utVars, pool, ledger, dlVars, msgVars, csVars>>

\* The with block is left and process_videos returns.
PoolReturn ==
    /\ pool.pc = "running"
    /\ AllCompleted(vid)
    /\ pool' = [pool EXCEPT !.pc = "returned", !.exit = ExitCode(vid)]
    /\ UNCHANGED <<utVars, vid, env, ledger, dlVars, msgVars, csVars>>

----------------------------------------------------------------------------
(* Text: strings are sequences of one-character strings                    *)

UpperCase == <<"A", "B", "C", "D", "E", "F", "G", "H", "I", "J", "K", "L", "M">>
    \o <<"N", "O", "P", "Q", "R", "S", "T", "U", "V", "W", "X", "Y", "Z">>
LowerCase == <<"a", "b", "c", "d", "e", "f", "g", "h", "i", "j", "k", "l", "m">>
    \o <<"n", "o", "p", "q", "r", "s", "t", "u", "v", "w", "x", "y", "z">>

LowerChar(ch) ==
    IF \E i \in 1..Len(UpperCase) : UpperCase[i] = ch
    THEN LowerCase[CHOOSE i \in 1..Len(UpperCase) : UpperCase[i] = ch]
    ELSE ch

\* str.lower()
lower(str) == [i \in 1..Len(str) |-> LowerChar(str[i])]

\* str.startswith(prefix)
startswith(str, prefix) ==
    Len(str) >= Len(prefix) /\ SubSeq(str, 1, Len(prefix)) = prefix

\* sub in str
contains(str, sub) ==
    \E i \in 0..(Len(str) - Len(sub)) : SubSeq(str, i + 1, i + Len(sub)) = sub

Whitespace == {" ", "\t", "\n"}

RECURSIVE lstrip(_, _)
lstrip(str, chars) ==
    IF str # <<>> /\ Head(str) \in chars THEN lstrip(Tail(str), chars) ELSE str

RECURSIVE rstrip(_, _)
rstrip(str, chars) ==
    IF str # <<>> /\ str[Len(str)] \in chars
    THEN rstrip(SubSeq(str, 1, Len(str) - 1), chars) ELSE str

\* str.strip() and str.strip(chars)
strip(str, chars) == rstrip(lstrip(str, chars), chars)

FilenameMaxLen == 150        \* safe_filename(input_str, max_length=150)
DirNameMaxLen == 100         \* safe_filename(subject, 100)

Forbidden == {"\\", "/", "*", "?", ":", "\"", "<", ">", "|"}
Untitled == <<"u", "n", "t", "i", "t", "l", "e", "d">>

\* safe_filename: re.sub(r'[\\/*?:"<>|]', '_', input_str.strip()), then
\* .strip('. ').strip()[:max_length], or "untitled"
safe_filename(input_str, max_length) ==
    LET stripped == strip(input_str, Whitespace)
        replaced == [i \in 1..Len(stripped) |->
                        IF stripped[i] \in Forbidden THEN "_" ELSE stripped[i]]
        trimmed == strip(strip(replaced, {".", " "}), Whitespace)
        cut == SubSeq(trimmed, 1, IF Len(trimmed) < max_length
                                  THEN Len(trimmed) ELSE max_length)
    IN  IF cut = <<>> THEN Untitled ELSE cut

----------------------------------------------------------------------------
(* Mail: email_video_runner.process_messages                               *)

FACTCHECK_KEYWORD == <<"f", "a", "c", "t", "c", "h", "e", "c", "k">>
FACTCHECK_RESPONSE_PREFIX == <<"[", "F", "A", "C", "T", "C", "H", "E", "C", "K", " ", "-", " ", "R", "E", "S", "P", "O", "N", "S", "E", "]", " ", "-", " ">>

Subjects ==
    { <<"V", "i", "d", "e", "o">>,
      <<"F", "a", "c", "t", "C", "h", "e", "c", "k", " ", "x">>,
      <<" ", "F", "a", "c", "t", "C", "h", "e", "c", "k", " ", "x", ".">>,
      <<"f", "a", "c", "t", "c", "h", "e", "c", "k", ":", " ", "y">>,
      FACTCHECK_RESPONSE_PREFIX \o <<"x">> }

\* send_factcheck_json_responses.main: --subject_prefix default
DefaultSubjectPrefix == <<"[", "F", "A", "C", "T", "C", "H", "E", "C", "K", " ", "-", " ", "R", "E", "S", "P", "O", "N", "S", "E", "]", " ">>

\* the names of the .json packages that are mailed back
JsonNames == { <<"x", ".", "j", "s", "o", "n">> }

\* subj = f"{args.subject_prefix}{jf.name}"
ResponseSubject(subject_prefix, name) == subject_prefix \o name

\* The subjects of the mails send_factcheck_json_responses sends by default.
ResponseSubjects == {ResponseSubject(DefaultSubjectPrefix, n) : n \in JsonNames}

\* From addresses as they arrive, and the address --approved_sender names
Alice == <<"a", "l">>
Senders == { Alice, <<"A", "l">>, <<"m", "a">> }
UrlLists == {<<>>} \cup {<<u>> : u \in Urls} \cup {<<u, w>> : u, w \in Urls}
MaxMsgs == 2                 \* messages delivered per behaviour

\* os.path.join('downloads', safe_filename(subject, 100)); the constant
\* first component is left out
OutputDir(subject) == safe_filename(subject, DirNameMaxLen)

\* download_with_ytdlp as one sequential call: attempt `at` of `retries`,
\* where the fetch first succeeds at attempt `okAt` (0: never) and the
\* record that follows it meets storage fault `fault`.  Yields the ledger
\* and the value returned.
RECURSIVE RetryLoop(_, _, _, _, _, _, _)
RetryLoop(table, url, title, at, retries, okAt, fault) ==
    IF at > retries THEN [ledger |-> table, success |-> FALSE, dbError |-> FALSE]
    ELSE IF at < okAt \/ okAt = 0
    THEN RetryLoop(table, url, title, at + 1, retries, okAt, fault)
    ELSE IF at = okAt /\ fault = "connect"
    THEN IF Catches("runner", "othererr")
         THEN RetryLoop(table, url, title, at + 1, retries, okAt, fault)
         ELSE [ledger |-> table, success |-> FALSE, dbError |-> FALSE]
    ELSE IF at = okAt /\ fault = "execute"
    THEN [ledger |-> table, success |-> TRUE, dbError |-> TRUE]
    ELSE [ledger |-> InsertOrIgnore(table, url, title), success |-> TRUE,
          dbError |-> FALSE]

download_with_ytdlp(table, url, title, retries, okAt, fault) ==
    IF GateSkips(table, url)
    THEN [ledger |-> table, success |-> TRUE, dbError |-> FALSE]
    ELSE RetryLoop(table, url, title, 1, retries, okAt, fault)

\* the directory is appended for every successful url
MarkDirAlways(dirs, output_dir, success, is_factcheck) ==
    IF success /\ is_factcheck THEN Append(dirs, output_dir) ELSE dirs

\* the directory is appended whatever the subject and the download's result
MarkDirUnconditionally(dirs, output_dir, success, is_factcheck) ==
    IF ~(\E k \in 1..Len(dirs) : dirs[k] = output_dir)
    THEN Append(dirs, output_dir) ELSE dirs

\* if success: if is_factcheck and output_dir not in factcheck_dirs: append
MarkDir(dirs, output_dir, success, is_factcheck) ==
    IF success /\ is_factcheck /\ ~(\E k \in 1..Len(dirs) : dirs[k] = output_dir)
    THEN Append(dirs, output_dir) ELSE dirs

\* the url log is left as it was
AppendsNothing(file, lines) == file

\* with open(url_logfile, 'a'): one line per url
AppendLines(file, lines) == file \o lines

\* with open('factcheck_dirs_for_transcription.txt', 'w'): one line per dir
WriteHandoff(file, dirs) == dirs

NoSubject == <<>>

\* What process_messages derives from a message's Subject header:
\*   subject = message.get('Subject', 'NoSubject').strip()
\*   subject.lower().startswith(FACTCHECK_RESPONSE_PREFIX.lower())
\*   is_factcheck = FACTCHECK_KEYWORD.lower() in subject.lower()
\*   output_dir = os.path.join('downloads', safe_filename(subject, 100))
SubjectFacts ==
    [s \in Subjects \cup ResponseSubjects |->
        LET subject == strip(s, Whitespace) IN
        [is_response |-> startswith(lower(subject), lower(FACTCHECK_RESPONSE_PREFIX)),
         is_factcheck |-> contains(lower(subject), lower(FACTCHECK_KEYWORD)),
         output_dir |-> OutputDir(subject)]]

\* every sender passes the filter
EveryoneApproved(sender, approved_senders) == FALSE

\* sender not in approved_senders
NotApproved(sender, approved_senders) == sender \notin approved_senders

\* re.findall(r'https?://\S+', body_text): the urls a message's text/plain
\* body can hold.  A mail of send_factcheck_json_responses has the body
\* "See attached factcheck results." and an application/json attachment.
BodyUrls(subject) == IF subject \in ResponseSubjects THEN {<<>>} ELSE UrlLists

NoMessage == [from |-> <<>>, subject |-> NoSubject]
NoCall == [url |-> "", success |-> FALSE, dbError |-> FALSE]

\* No run of process_messages has started and the URL log is empty.
\*   msg: the message fetched and not yet filtered; sender, subject, todo:
\*   the message whose urls are being downloaded; last: the latest call of
\*   download_with_ytdlp, its url, the value of `success`, and whether
\*   record_successful_download logged a DB record error; note: why the
\*   latest message led to no download ("Skipping email from ...; not
\*   approved.", "Skipping response email ...", "No URLs found in message.")
RunAtRest ==
    /\ run = [pc |-> "idle", left |-> 0, budget |-> MaxMsgs, retries |-> 1,
              approved |-> {}, dirs |-> <<>>, todo |-> <<>>, subject |-> NoSubject,
              sender |-> <<>>, msg |-> NoMessage, last |-> NoCall, note |-> ""]
    /\ urlLog = <<>>

MailAtRest == RunAtRest /\ handoff = <<>>

\* process_messages is called with msg_ids, approved_senders and retries
StartRun ==
    /\ run.pc = "idle"
    /\ run.budget > 0
    /\ \E n \in 1..run.budget, approved \in {{}, {Alice}}, retries \in 1..MaxRetries :
         run' = [pc |-> "loop", left |-> n, budget |-> run.budget - n,
                 retries |-> retries, approved |-> approved, dirs |-> <<>>,
                 todo |-> <<>>, subject |-> NoSubject, sender |-> <<>>,
                 msg |-> NoMessage, last |-> NoCall, note |-> ""]
    /\ UNCHANGED <<utVars, urlLog, handoff, ledger, dlVars, plVars, csVars>>

\* The head of one iteration of `for msg_id in msg_ids`: the IMAP fetch.
\*   fetched: "ok", "abort" (IMAP abort on every try), "notok" (rv != 'OK')
FetchMessage ==
    /\ run.pc = "loop"
    /\ run.left > 0
    /\ run.todo = <<>>
    /\ \E fetched \in {"ok", "abort", "notok"}, from \in Senders,
          subject \in Subjects \cup ResponseSubjects :
         IF fetched # "ok"
         THEN /\ from = Alice /\ subject = <<"V", "i", "d", "e", "o">>
              /\ run' = [run EXCEPT !.left = @ - 1, !.last = NoCall, !.note = ""]
         ELSE run' = [run EXCEPT !.pc = "fetched", !.last = NoCall, !.note = "",
                                 !.msg = [from |-> from, subject |-> subject]]
    /\ UNCHANGED <<utVars, urlLog, handoff, ledger, dlVars, plVars, csVars>>

\* The rest of the iteration up to the loop over the urls: the sender and
\* response-subject filters, the urls of the body, the URL log.
HandleMessage ==
    /\ run.pc = "fetched"
    /\ LET message == run.msg
           sender == lower(message.from)
           facts == SubjectFacts[message.subject]
       IN  IF NotApproved(sender, run.approved) \/ facts.is_response
           THEN /\ run' = [run EXCEPT
                      !.pc = "loop", !.left = @ - 1, !.msg = NoMessage,
                      !.note = IF NotApproved(sender, run.approved)
                               THEN "not approved" ELSE "response"]
                /\ UNCHANGED urlLog
           ELSE \E urls \in BodyUrls(message.subject) :
                  /\ urlLog' = AppendLines(urlLog, urls)
                  /\ run' = [run EXCEPT
                        !.pc = "loop", !.left = @ - 1, !.msg = NoMessage,
                        !.todo = urls,
                        !.note = IF urls = <<>> THEN "no urls" ELSE "",
                        !.subject = IF urls = <<>> THEN NoSubject ELSE message.subject,
                        !.sender = IF urls = <<>> THEN <<>> ELSE sender]
    /\ UNCHANGED <<utVars, handoff, ledger, dlVars, plVars, csVars>>

\* One iteration of `for url in urls`: download_with_ytdlp, then the mark.
DownloadUrl ==
    /\ run.pc = "loop"
    /\ run.todo # <<>>
    /\ \E title \in Titles, okAt \in 0..run.retries, fault \in {"none", "execute", "connect"} :
         LET facts == SubjectFacts[run.subject]
             url == Head(run.todo)
             got == download_with_ytdlp(ledger, url, title, run.retries, okAt, fault)
         IN  /\ (okAt = 0 \/ GateSkips(ledger, url))
                    => okAt = 0 /\ fault = "none" /\ title = "t1"
             /\ ledger' = got.ledger
             /\ run' = [run EXCEPT
                    !.todo = Tail(@),
                    !.subject = IF Len(run.todo) = 1 THEN NoSubject ELSE @,
                    !.sender = IF Len(run.todo) = 1 THEN <<>> ELSE @,
                    !.last = [url |-> url, success |-> got.success,
                              dbError |-> got.dbError],
                    !.dirs = MarkDir(@, facts.output_dir, got.success,
                                     facts.is_factcheck)]
    /\ UNCHANGED <<utVars, urlLog, handoff, dlVars, plVars, csVars>>

\* After the loop: if factcheck_dirs: write the list; return.
FinishRun ==
    /\ run.pc = "loop"
    /\ run.left = 0
    /\ run.todo = <<>>
    /\ handoff' = IF run.dirs # <<>> THEN WriteHandoff(handoff, run.dirs) ELSE handoff
    /\ run' = [run EXCEPT !.pc = "idle", !.last = NoCall, !.note = ""]
    /\ UNCHANGED <<utVars, urlLog, ledger, dlVars, plVars, csVars>>

----------------------------------------------------------------------------
(* The consumer of the hand-off list: transcribe_downloaded_videos.py      *)

MaxConsFaults == 1           \* failures of ffmpeg and Whisper injected into the consumer

\* The directories process_messages can have flagged.
HandoffDirs ==
    {SubjectFacts[s].output_dir :
        s \in {t \in Subjects : SubjectFacts[t].is_factcheck /\ ~SubjectFacts[t].is_response}}

DirX == SubjectFacts[<<"F", "a", "c", "t", "C", "h", "e", "c", "k", " ", "x">>].output_dir

\* The videos in each flagged directory; a directory that holds none
\* stands also for one that is gone (Directory not found: logged, skipped).
ListedVideos == {"a", "b"}
DirVideos == [d \in HandoffDirs |-> IF d = DirX THEN ListedVideos ELSE {}]

\* The lists the producer can have left.
HandoffLists ==
    {<<>>} \cup {<<d>> : d \in HandoffDirs}
           \cup {q \in {<<d, e>> : d \in HandoffDirs, e \in HandoffDirs} : q[1] # q[2]}

\* The orders in which glob can yield the videos.
Orders(S) ==
    {o \in [1..Cardinality(S) -> S] : \A i, j \in 1..Cardinality(S) : o[i] = o[j] => i = j}

IdleConsumer ==
    [pc |-> "idle", dirs |-> <<>>, todo |-> <<>>, stage |-> "extract",
     faults |-> MaxConsFaults]

ConsumerAtRest == cons = IdleConsumer

\* load_factcheck_dirs: [line.strip() for line in f if line.strip()]
load_factcheck_dirs(file) ==
    LET NotBlank(line) == strip(line, Whitespace) # <<>>
        kept == SelectSeq(file, NotBlank)
    IN  [i \in 1..Len(kept) |-> strip(kept[i], Whitespace)]

\* for d in factcheck_dirs: video_files.extend(d_path.glob("*.mp4"))
RECURSIVE video_files(_, _, _)
video_files(dirs, vs, order) ==
    IF dirs = <<>> THEN <<>>
    ELSE LET InDir(v) == v \in DirVideos[Head(dirs)] /\ v \in rglob(vs)
         IN  SelectSeq(order, InDir) \o video_files(Tail(dirs), vs, order)

\* a start-up that reads the list before it tests for its tools
ExitsAfterLoading(c, file) ==
    [c EXCEPT !.pc = "aborted", !.dirs = load_factcheck_dirs(file), !.todo = <<>>,
              !.stage = "extract"]

\* check_prerequisites() is the first statement of main: sys.exit(1)
OnMissingPrerequisite(c, file) ==
    [c EXCEPT !.pc = "aborted", !.dirs = <<>>, !.todo = <<>>, !.stage = "extract"]

\* main up to its loop: check_prerequisites, load_factcheck_dirs, the
\* early return on an empty list, the glob of each listed directory.
ConsumerMain ==
    /\ cons.pc # "running"
    /\ \E prereq \in BOOLEAN, order \in Orders(DOMAIN vid) :
         IF ~prereq
         THEN /\ order = CHOOSE o \in Orders(DOMAIN vid) : TRUE
              /\ cons' = OnMissingPrerequisite(cons, handoff)
         ELSE LET dirs == load_factcheck_dirs(handoff)
                  found == video_files(dirs, vid, order)
              IN  /\ found = <<>> => order = CHOOSE o \in Orders(DOMAIN vid) : TRUE
                  /\ cons' = [cons EXCEPT
                         !.pc = IF dirs = <<>> THEN "returned" ELSE "running",
                         !.dirs = dirs, !.todo = found, !.stage = "extract"]
    /\ UNCHANGED <<utVars, vid, pool, env, ledger, dlVars, msgVars>>

\* continue / the end of one iteration of `for video in video_files`
NextVideo(c) == [c EXCEPT !.todo = Tail(@), !.stage = "extract"]

\* An exception raised inside the loop is caught nowhere in main: it ends
\* the run with the remaining videos untouched.
RaisedInLoop(c) == [c EXCEPT !.pc = "raised", !.stage = "extract"]

\* if not extract_audio(video, audio): continue
ConsumerExtract ==
    /\ cons.pc = "running"
    /\ cons.todo # <<>>
    /\ cons.stage = "extract"
    /\ LET v == Head(cons.todo) IN
       IF AudioAlreadyExists(vid[v].wav)
       THEN cons' = [cons EXCEPT !.stage = "transcribe"] /\ UNCHANGED vid
       ELSE \E r \in {"ok", "exit", "exit_partial", "oserror"} :
              LET c == IF r = "ok" THEN cons ELSE [cons EXCEPT !.faults = @ - 1] IN
              /\ r # "ok" => cons.faults > 0
              /\ vid' = [vid EXCEPT ![v].wav =
                            CASE r = "ok" -> "complete"
                              [] r = "exit_partial" -> "partial"
                              [] OTHER -> @]
              /\ cons' = CASE r = "ok" -> [c EXCEPT !.stage = "transcribe"]
                          [] r = "oserror" -> RaisedInLoop(c)
                          [] OTHER -> NextVideo(c)
    /\ UNCHANGED <<utVars, pool, env, ledger, dlVars, msgVars>>

\* transcribe_audio(audio, transcript, model_size=model_size)
ConsumerTranscribe ==
    /\ cons.pc = "running"
    /\ cons.todo # <<>>
    /\ cons.stage = "transcribe"
    /\ LET v == Head(cons.todo) IN
       IF TranscriptAlreadyExists(vid[v].txt)
       THEN cons' = NextVideo(cons) /\ UNCHANGED vid
       ELSE \E r \in {"ok", "raise", "write_fail"} :
              LET c == IF r = "ok" THEN cons ELSE [cons EXCEPT !.faults = @ - 1] IN
              /\ r # "ok" => cons.faults > 0
              /\ vid' = [vid EXCEPT ![v].txt = transcribe_audio(vid[v], r).txt]
              /\ cons' = IF r = "ok" THEN NextVideo(c) ELSE RaisedInLoop(c)
    /\ UNCHANGED <<utVars, pool, env, ledger, dlVars, msgVars>>

\* The loop is exhausted and main returns.
ConsumerReturn ==
    /\ cons.pc = "running"
    /\ cons.todo = <<>>
    /\ cons' = [cons EXCEPT !.pc = "returned"]
    /\ UNCHANGED <<utVars, vid, pool, env, ledger, dlVars, msgVars>>

----------------------------------------------------------------------------
(* Utilities: safe_filename as a call, deduplicate_by_md5.py               *)

MaxInputLen == 4             \* characters of an input of safe_filename
MaxCut == 2                  \* max_length is drawn from 1..MaxCut and the default

\* the characters the inputs of safe_filename are made of
NameChars == {"a", ".", " ", "\t", "/"}

\* every string of at most n characters over NameChars
RECURSIVE Strings(_)
Strings(n) ==
    IF n = 0 THEN {<<>>}
    ELSE LET shorter == Strings(n - 1)
         IN  shorter \cup {Append(s, ch) : s \in shorter, ch \in NameChars}

\* instagram_downloader.safe_filename, statement by statement
instagram_safe_filename(input_str, max_length) ==
    LET stripped == strip(input_str, Whitespace)
        sanitized1 == [i \in 1..Len(stripped) |->
                          IF stripped[i] \in Forbidden THEN "_" ELSE stripped[i]]
        sanitized2 == strip(strip(sanitized1, {".", " "}), Whitespace)
        sanitized3 == SubSeq(sanitized2, 1, IF Len(sanitized2) < max_length
                                            THEN Len(sanitized2) ELSE max_length)
    IN  IF sanitized3 = <<>> THEN Untitled ELSE sanitized3

\* utils.common.safe_filename: the same two statements as the runner's copy
common_safe_filename(input_str, max_length) == safe_filename(input_str, max_length)

NoName == [pc |-> "idle", module |-> "common", input_str |-> <<>>,
           max_length |-> FilenameMaxLen, result |-> <<>>]

\* the calls of safe_filename that can be made
NameCalls ==
    {[NoName EXCEPT !.pc = "called", !.module = m, !.input_str = s, !.max_length = n] :
        m \in {"common", "instagram"}, s \in Strings(MaxInputLen),
        n \in (1..MaxCut) \cup {FilenameMaxLen}}

\* safe_filename(input_str, max_length) returns
SafeFilename ==
    /\ fname.pc = "called"
    /\ fname' = [fname EXCEPT
           !.pc = "returned",
           !.result = IF fname.module = "instagram"
                      THEN instagram_safe_filename(fname.input_str, fname.max_length)
                      ELSE common_safe_filename(fname.input_str, fname.max_length)]
    /\ UNCHANGED <<tree, ledger, dlVars, plVars, msgVars, csVars>>

MaxHashFaults == 1           \* files md5_for_file cannot read
MaxUnlinkFaults == 1         \* files unlink cannot remove

\* The regular files below target_dir, by str(file), and their contents' md5
Paths == { <<"a">>, <<"b">>, <<"a", "b">>, <<"b", "a">>, <<"d", "/", "a">> }
Hashes == {"h1", "h2"}

\* the order of the characters of the paths
CharOrder == <<"/", "a", "b">>
Ord(ch) == CHOOSE i \in 1..Len(CharOrder) : CharOrder[i] = ch

\* s < t for two str
RECURSIVE StrLess(_, _)
StrLess(s, t) ==
    IF t = <<>> THEN FALSE
    ELSE IF s = <<>> THEN TRUE
    ELSE IF Head(s) # Head(t) THEN Ord(Head(s)) < Ord(Head(t))
    ELSE StrLess(Tail(s), Tail(t))

\* the shortest path first
ShortestFirst(f, g) ==
    Len(f) < Len(g) \/ (Len(f) = Len(g) /\ StrLess(f, g))

\* sorted(files, key=lambda f: (-len(str(f)), str(f))): f comes before g
SortsBefore(f, g) ==
    Len(f) > Len(g) \/ (Len(f) = Len(g) /\ StrLess(f, g))

\* files_sorted[0]
to_keep(files) == CHOOSE f \in files : \A g \in files \ {f} : SortsBefore(f, g)

\* files_sorted[1:]
to_delete(files) == files \ {to_keep(files)}

\* md5_to_files: the files md5_for_file could read, by digest
md5_to_files(t) ==
    [h \in Hashes |-> {p \in DOMAIN t.files : t.files[p] = h /\ p \notin t.unreadable}]

NoTree == [pc |-> "idle", before |-> <<>>, files |-> <<>>, unreadable |-> {},
           undeletable |-> {}, removed |-> 0, failed |-> {}]

\* the directories deduplicate_by_md5 can be run on
Trees ==
    {[NoTree EXCEPT !.pc = "called", !.before = f, !.files = f,
                    !.unreadable = u, !.undeletable = d] :
        f \in UNION {[P -> Hashes] : P \in SUBSET Paths},
        u \in {s \in SUBSET Paths : Cardinality(s) <= MaxHashFaults},
        d \in {s \in SUBSET Paths : Cardinality(s) <= MaxUnlinkFaults}}

\* deduplicate_by_md5(target_dir), from the rglob to the last print
Deduplicate ==
    /\ tree.pc = "called"
    /\ LET groups == md5_to_files(tree)
           unlinked == UNION {to_delete(groups[h]) :
                                 h \in {k \in Hashes : Cardinality(groups[k]) > 1}}
           gone == unlinked \ tree.undeletable
       IN  tree' = [tree EXCEPT
               !.pc = "done",
               !.files = [p \in (DOMAIN tree.files) \ gone |-> tree.files[p]],
               !.removed = Cardinality(gone),
               !.failed = unlinked \cap tree.undeletable]
    /\ UNCHANGED <<fname, ledger, dlVars, plVars, msgVars, csVars>>

UtilitiesAtRest == fname = NoName /\ tree = NoTree

----------------------------------------------------------------------------
(* Specifications                                                          *)

InitDownload ==
    /\ DownloadsAtRest /\ PoolAtRest(Videos, 0, 0) /\ MailAtRest
    /\ ConsumerAtRest /\ UtilitiesAtRest

NextDownload ==
    \E p \in CallIds : Enter(p) \/ Fetch(p) \/ Write(p) \/ Record(p) \/ Backoff(p)

SpecDownload == InitDownload /\ [][NextDownload]_vars

InitPool ==
    /\ DownloadsAtRest /\ PoolAtRest(Videos, PoolFaults, PoolMods) /\ MailAtRest
    /\ ConsumerAtRest /\ UtilitiesAtRest

InitScan ==
    /\ DownloadsAtRest /\ PoolAtRest(FewVideos, MaxFaults, MaxMods) /\ MailAtRest
    /\ ConsumerAtRest /\ UtilitiesAtRest

NextPool ==
    \/ ProcessVideos
    \/ PoolReturn
    \/ \E v \in Videos \cup {TempFile} :
          \/ Start(v) \/ Delete(v) \/ Modify(v) \/ Sample(v)
          \/ Extract(v) \/ Transcribe(v) \/ Package(v)

SpecPool == InitPool /\ [][NextPool]_vars

SpecScan == InitScan /\ [][NextPool]_vars

InitMessages ==
    /\ DownloadsAtRest /\ PoolAtRest(Videos, 0, 0) /\ MailAtRest
    /\ ConsumerAtRest /\ UtilitiesAtRest

NextMessages == StartRun \/ FetchMessage \/ HandleMessage \/ DownloadUrl \/ FinishRun

SpecMessages == InitMessages /\ [][NextMessages]_vars

\* The consumer and the scan work on the same directory: two listed
\* videos, a list left by the producer, one file change by a third party.
InitConsumer ==
    /\ DownloadsAtRest
    /\ PoolAtRest(ListedVideos, 0, 1)
    /\ RunAtRest
    /\ handoff \in HandoffLists
    /\ ConsumerAtRest
    /\ UtilitiesAtRest

NextConsumer ==
    \/ ConsumerMain
    \/ ConsumerExtract
    \/ ConsumerTranscribe
    \/ ConsumerReturn
    \/ NextPool

SpecConsumer == InitConsumer /\ [][NextConsumer]_vars

\* The sweep over a directory whose videos nobody changes: process_videos
\* is run again and again, and the failures of ffmpeg, Whisper and file
\* I/O are transient (MaxFaults of them, then every operation succeeds).
InitConverge ==
    /\ DownloadsAtRest
    /\ PoolAtRest(ListedVideos, MaxFaults, 0)
    /\ MailAtRest
    /\ ConsumerAtRest /\ UtilitiesAtRest

NextConverge ==
    \/ ProcessVideos
    \/ PoolReturn
    \/ \E v \in ListedVideos :
          \/ Start(v) \/ Sample(v)
          \/ Extract(v) \/ Transcribe(v) \/ Package(v)

\* The sweep is started again each time it has ended, and eventually with
\* its prerequisites in place; the executor runs every task it was given,
\* and a running worker takes its next step.
SweepFairness ==
    /\ WF_vars(ProcessVideos /\ pool'.pc = "running")
    /\ WF_vars(PoolReturn)
    /\ \A v \in ListedVideos :
          /\ WF_vars(Start(v)) /\ WF_vars(Sample(v))
          /\ WF_vars(Extract(v)) /\ WF_vars(Transcribe(v)) /\ WF_vars(Package(v))

SpecConverge == InitConverge /\ [][NextConverge]_vars /\ SweepFairness

\* Calls of safe_filename, each with its own arguments.
InitNames ==
    /\ DownloadsAtRest /\ PoolAtRest(Videos, 0, 0) /\ MailAtRest /\ ConsumerAtRest
    /\ tree = NoTree
    /\ fname \in NameCalls

NextNames == SafeFilename

SpecNames == InitNames /\ [][NextNames]_vars

\* Runs of deduplicate_by_md5, each on its own directory.
InitDedup ==
    /\ DownloadsAtRest /\ PoolAtRest(Videos, 0, 0) /\ MailAtRest /\ ConsumerAtRest
    /\ fname = NoName
    /\ tree \in Trees

NextDedup == Deduplicate

SpecDedup == InitDedup /\ [][NextDedup]_vars

----------------------------------------------------------------------------
(* Claims about the download functions (SpecDownload)                      *)

RECURSIVE SumFetches(_, _)
SumFetches(ps, url) ==
    IF ps = {} THEN 0
    ELSE LET p == CHOOSE q \in ps : TRUE
         IN  (IF calls[p].url = url THEN calls[p].fetches ELSE 0)
             + SumFetches(ps \ {p}, url)

\* C1: when every fetch of a URL succeeds (and the store works), the calls
\* for that URL, sequential or concurrent, execute the real fetch at most
\* once in total.
C1_FetchAtMostOnce ==
    \A u \in Urls :
        (dbFaults = 0 /\ \A p \in CallIds : calls[p].url = u => calls[p].fails = 0)
            => SumFetches(CallIds, u) <= 1

\* C2: the table never holds two rows for one url; once an insert for the
\* url has been executed by the store it holds exactly one; and the call
\* that took the duplicate (ignored) path returned success, it did not raise.
C2_LedgerUnique ==
    \A u \in Urls :
        /\ Cardinality(RowsFor(ledger, u)) <= 1
        /\ \A p \in CallIds :
             (calls[p].url = u /\ calls[p].rec \in {"inserted", "ignored"})
                => /\ Cardinality(RowsFor(ledger, u)) = 1
                   /\ calls[p].result = "true"

\* Two calls recorded the same url with different titles: one inserted, the
\* other took the duplicate path.
C2_Witness ==
    \E p, q \in CallIds :
        /\ calls[p].url = calls[q].url
        /\ calls[p].title # calls[q].title
        /\ calls[p].rec = "inserted"
        /\ calls[q].rec = "ignored"

\* C3: a call that finds its URL in the ledger returns True at once: no
\* fetch attempt, no sleep, no insert, and the step changes neither the
\* ledger nor the disk; no call fetches before it has consulted the ledger.
C3_GateStep(p) ==
    (calls[p].pc = "idle" /\ calls'[p].pc # "idle"
        /\ is_url_downloaded(ledger, calls'[p].url))
    => /\ calls'[p].pc = "done"
       /\ calls'[p].result = "true"
       /\ calls'[p].gateHit
       /\ ledger' = ledger
       /\ disk' = disk

C3_GateBeforeFetch ==
    /\ [](\A p \in CallIds :
            /\ calls[p].gateHit =>
                 /\ calls[p].pc = "done" /\ calls[p].result = "true"
                 /\ calls[p].fetches = 0 /\ calls[p].sleeps = 0
                 /\ calls[p].rec = "none"
            /\ calls[p].pc = "idle" => calls[p].fetches = 0)
    /\ [][\A p \in CallIds : C3_GateStep(p)]_vars

\* A call returned through the gate for a URL another call had recorded.
C3_Witness ==
    \E p, q \in CallIds :
        /\ calls[p].gateHit /\ calls[p].pc = "done"
        /\ calls[q].rec = "inserted" /\ calls[q].url = calls[p].url

\* C6: a call whose fetch failed on every attempt has invoked it exactly
\* `retries` times, slept retries-1 times and returned False, whatever the
\* kind of failure.
C6_RetryBound ==
    \A p \in CallIds :
        (calls[p].pc = "done" /\ calls[p].fetches >= 1
            /\ calls[p].fails = calls[p].fetches /\ calls[p].rec = "none")
        => /\ calls[p].fetches = calls[p].retries
           /\ calls[p].sleeps = calls[p].retries - 1
           /\ calls[p].result = "false"

\* C14: a call whose record met a storage error after a successful fetch
\* has returned True, and has made no further fetch attempt.
C14_StorageFaultNonFatal ==
    \A p \in CallIds :
        calls[p].rec = "fault" =>
            /\ calls[p].pc = "done"
            /\ calls[p].result = "true"
            /\ calls[p].fetches = calls[p].fails + 1

\* C15: every row of the ledger was inserted by a call for that URL after
\* one of its fetches had returned without error (for instagram: with the
\* video file on disk); only the step at record_successful_download, which
\* follows a successful fetch, adds a row.
C15_StepFromRecord ==
    ledger' # ledger =>
        \E p \in CallIds :
            /\ calls[p].pc = "record" /\ calls'[p].rec = "inserted"
            /\ calls[p].fails < calls[p].fetches
            /\ ledger' = Append(ledger, [url |-> calls[p].url, title |-> calls[p].title])

C15_RecordAfterSuccess ==
    /\ [](\A i \in 1..Len(ledger) :
            \E p \in CallIds :
                /\ calls[p].url = ledger[i].url
                /\ calls[p].rec = "inserted"
                /\ calls[p].fails < calls[p].fetches
                /\ calls[p].kind = "instagram" =>
                     \E n \in 0..Cardinality(disk.files) : <<calls[p].title, n>> \in disk.files)
    /\ [][C15_StepFromRecord]_vars

\* A call failed its first attempt, succeeded at the second and inserted
\* the row, while a call for another URL that never succeeded left no row.
C15_Witness ==
    \E p, q \in CallIds :
        /\ calls[p].rec = "inserted" /\ calls[p].fails = 1 /\ calls[p].fetches = 2
        /\ calls[q].pc = "done" /\ calls[q].result = "false" /\ calls[q].fails >= 1
        /\ calls[q].url # calls[p].url
        /\ ~is_url_downloaded(ledger, calls[q].url)

\* C16: no step changes or removes a row of the ledger: the table before
\* the step is a prefix of the table after it, so a later record of a known
\* url with another title leaves the stored title as first written.
C16_RowsImmutable ==
    [][/\ Len(ledger') >= Len(ledger)
       /\ \A i \in 1..Len(ledger) : ledger'[i] = ledger[i]]_vars

\* A call recorded a known url under another title than the stored one,
\* and the stored title is still the first one.
C16_Witness ==
    \E p, q \in CallIds : \E i \in 1..Len(ledger) :
        /\ calls[p].rec = "inserted" /\ calls[q].rec = "ignored"
        /\ calls[q].url = calls[p].url
        /\ ledger[i].url = calls[p].url
        /\ ledger[i].title = calls[p].title
        /\ ledger[i].title # calls[q].title

C24_LastErrorReturned ==
    \A p \in CallIds :
        (calls[p].pc = "done" /\ calls[p].result = "false"
            /\ calls[p].fetches = calls[p].retries)
        => calls[p].retErr = calls[p].lastErr

\* C25: (with a working store) a call has logged one failure line for
\* each attempt that failed, at the latest before its next attempt.
C25_EveryFailureLogged ==
    \A p \in CallIds : dbFaults = 0 => calls[p].logged = calls[p].fails

\* C32: the path get_unique_filepath returns does not exist when it
\* returns, and no call of download_instagram_video opens with "wb" a
\* path to which a call for another url has written its download.
C32_PathStep(p) ==
    (calls[p].pc = "fetch" /\ calls'[p].pc = "write") =>
        calls'[p].path \notin disk.files

C32_WriteStep(p) ==
    (calls[p].pc = "write" /\ calls'[p].pc = "record") =>
        ~ \E q \in CallIds \ {p} :
              /\ calls[q].kind = "instagram"
              /\ calls[q].pc \in {"record", "done"}
              /\ calls[q].url # calls[p].url
              /\ calls[q].path = calls[p].path

C32_NeverOverwrites ==
    [][\A p \in CallIds : C32_PathStep(p) /\ C32_WriteStep(p)]_vars

----------------------------------------------------------------------------
(* Claims about the scan (SpecScan, SpecPool)                              *)

Sidecars(r) == <<r.wav, r.txt, r.json>>

\* C4: once a video's .json exists, no step of any later scan writes a file
\* for it or calls ffmpeg or whisper for it, and its sidecars stay as they
\* are; its worker ends at the "already processed" test (or defers).
C4_Step(v) ==
    Exists(vid[v].json) =>
        /\ Sidecars(vid'[v]) = Sidecars(vid[v])
        /\ vid'[v].ext <= vid[v].ext
        /\ vid'[v].wr <= vid[v].wr

C4_TerminalPackage ==
    /\ [](\A v \in DOMAIN vid :
            /\ Exists(vid[v].json) => vid[v].pc \notin {"extract", "transcribe", "package"}
            /\ vid[v].outcome = "already" =>
                 /\ Exists(vid[v].json)
                 /\ vid[v].ext = 0 /\ vid[v].wr = 0)
    /\ [][\A v \in DOMAIN vid : C4_Step(v)]_vars

\* A re-scan has finished a video that was packaged by an earlier scan.
C4_Witness ==
    \E v \in DOMAIN vid :
        /\ vid[v].pc = "done" /\ vid[v].outcome = "already"
        /\ Sidecars(vid[v]) = <<"complete", "complete", "complete">>

\* C5: when the two samples differ in size the worker ends there: nothing
\* is written and nothing external is called for the video in that scan;
\* when size and mtime are both unchanged it goes on to the sidecar stages.
C5_Step(v) ==
    (vid[v].pc = "window" /\ vid'[v].pc # "window") =>
        /\ vid[v].stat.size # vid[v].s0.size =>
             /\ vid'[v].pc = "done" /\ vid'[v].outcome = "deferred"
             /\ Sidecars(vid'[v]) = Sidecars(vid[v])
             /\ vid'[v].ext = 0 /\ vid'[v].wr = 0
        /\ vid[v].stat = vid[v].s0 =>
             \/ vid'[v].pc = "extract"
             \/ vid'[v].pc = "done" /\ vid'[v].outcome = "already"

C5_StabilityGate ==
    /\ [](\A v \in DOMAIN vid :
            vid[v].outcome = "deferred" =>
                vid[v].pc = "done" /\ vid[v].ext = 0 /\ vid[v].wr = 0)
    /\ [][\A v \in DOMAIN vid : C5_Step(v)]_vars

\* One video grew during its window and was deferred with no sidecar, while
\* an unchanged one was packaged.
C5_Witness ==
    \E v, w \in DOMAIN vid :
        /\ vid[v].outcome = "deferred" /\ vid[v].stat.size # IdleVideo.stat.size
        /\ Sidecars(vid[v]) = <<"absent", "absent", "absent">>
        /\ vid[w].outcome = "packaged" /\ vid[w].stat = IdleVideo.stat

\* C7: when process_videos has returned and some video failed, every other
\* video was run to its end, and each one that neither failed nor was
\* deferred itself has its .json; the failing step touches no other video.
C7_FailStep(v) ==
    (vid[v].outcome # "failed" /\ vid'[v].outcome = "failed") =>
        \A w \in DOMAIN vid \ {v} : vid'[w] = vid[w]

C7_PoolIsolation ==
    /\ [](pool.pc = "returned" =>
            \A w \in DOMAIN vid : vid[w].outcome = "failed" =>
                \A v \in DOMAIN vid \ {w} : vid[v].pc # "idle" =>
                    /\ vid[v].outcome \in {"packaged", "already", "deferred", "failed"}
                    /\ vid[v].outcome \notin {"deferred", "failed"} => Exists(vid[v].json))
    /\ [][\A v \in DOMAIN vid : C7_FailStep(v)]_vars

\* The scan returned with one video failed and the two others packaged.
C7_Witness ==
    /\ pool.pc = "returned"
    /\ \E w \in DOMAIN vid :
         /\ vid[w].outcome = "failed"
         /\ \A v \in DOMAIN vid \ {w} :
              vid[v].outcome = "packaged" /\ vid[v].json = "complete"

\* C8: process_videos has returned only if process_single_video has ended
\* for every discovered video (a file not discovered by the scan is idle).
C8_FullDrain ==
    pool.pc = "returned" =>
        \A v \in DOMAIN vid :
            vid[v].pc # "idle" => vid[v].pc = "done" /\ vid[v].outcome # "none"

\* A scan with one worker returned after all three videos were packaged.
C8_Witness ==
    /\ pool.pc = "returned" /\ pool.max_workers = 1
    /\ \A v \in DOMAIN vid : vid[v].pc = "done" /\ vid[v].outcome = "packaged"

\* C9: never more than max_workers videos are being processed at once.
C9_PoolBound == Cardinality(InFlight(vid)) <= pool.max_workers

\* Two workers are busy and a third video waits in the queue.
C9_Witness ==
    /\ pool.max_workers = DefaultWorkers
    /\ Cardinality(InFlight(vid)) = DefaultWorkers
    /\ \E v \in DOMAIN vid : vid[v].pc = "queued"

\* C11: the .json sidecar of a video is never partial: it is absent or it
\* holds the complete record, also after package_json failed half-way.
C11_AtomicPackage ==
    \A v \in DOMAIN vid : vid[v].json \in {"absent", "complete"}

\* C12: after a failed run of ffmpeg no .wav exists for the video.
C12_NoPartialAudio ==
    \A v \in DOMAIN vid : vid[v].err = "ffmpeg" => vid[v].wav = "absent"

\* C13: b.mp4.part is never worked on: no sidecar, no failure, no change;
\* a scan that returns with no failure injected and no file changed has
\* left .wav, .txt and .json for every .mp4; and once every .mp4 is
\* packaged no step writes a file.
C13_QuietStep ==
    (\A v \in rglob(vid) : vid[v].json = "complete") =>
        \A v \in DOMAIN vid :
            Sidecars(vid'[v]) = Sidecars(vid[v]) /\ vid'[v].wr <= vid[v].wr

C13_TempScenario ==
    /\ [](/\ vid[TempFile] = IdleVideo
          /\ (pool.pc = "returned" /\ env = [faults |-> MaxFaults, mods |-> MaxMods]) =>
                \A v \in DOMAIN vid \ {TempFile} :
                    Sidecars(vid[v]) = <<"complete", "complete", "complete">>)
    /\ [][C13_QuietStep]_vars

\* A second scan has returned: a.mp4 was found packaged, nothing was
\* written, and b.mp4.part is as it was.
C13_Witness ==
    /\ pool.pc = "returned"
    /\ env = [faults |-> MaxFaults, mods |-> MaxMods]
    /\ vid["a"].outcome = "already" /\ vid["a"].wr = 0
    /\ Sidecars(vid["a"]) = <<"complete", "complete", "complete">>
    /\ vid[TempFile] = IdleVideo

\* C17: a video whose file is gone at the first or the second stat is
\* deferred: its worker ends with "Not stable", not with an error, and
\* nothing is written or called for it.
C17_Step(v) ==
    (vid[v].stat = NoFile /\ vid[v].pc \in {"queued", "window"}
        /\ vid'[v].pc \notin {"queued", "window"})
    => /\ vid'[v].pc = "done" /\ vid'[v].outcome = "deferred"
       /\ vid'[v].err = "none"
       /\ Sidecars(vid'[v]) = Sidecars(vid[v])
       /\ vid'[v].ext = 0 /\ vid'[v].wr = 0

C17_FailsClosed ==
    /\ [](\A v \in DOMAIN vid :
            vid[v].stat = NoFile =>
                /\ vid[v].pc \in {"idle", "queued", "window", "done"}
                /\ vid[v].pc = "done" =>
                     vid[v].outcome = "deferred" /\ vid[v].ext = 0 /\ vid[v].wr = 0)
    /\ [][\A v \in DOMAIN vid : C17_Step(v)]_vars

\* A video was deleted after discovery and its worker deferred it, while
\* the scan returned.
C17_Witness ==
    /\ pool.pc = "returned"
    /\ \E v \in DOMAIN vid :
         /\ vid[v].stat = NoFile
         /\ vid[v].pc = "done" /\ vid[v].outcome = "deferred"
         /\ Sidecars(vid[v]) = <<"absent", "absent", "absent">>

\* C18: the worker passes the stability test exactly when the second
\* sample has both the size and the mtime of the first.
C18_Step(v) ==
    (vid[v].pc = "window" /\ vid'[v].pc # "window") =>
        ((vid'[v].outcome # "deferred")
            <=> (/\ vid[v].stat # NoFile
                 /\ vid[v].stat.size = vid[v].s0.size
                 /\ vid[v].stat.mtime = vid[v].s0.mtime))

C18_StableIffBoth ==
    [][\A v \in DOMAIN vid : C18_Step(v)]_vars

\* A video whose mtime alone changed during the window was deferred.
C18_Witness ==
    \E v \in DOMAIN vid :
        /\ vid[v].pc = "done" /\ vid[v].outcome = "deferred"
        /\ vid[v].stat.size = IdleVideo.stat.size
        /\ vid[v].stat.mtime # IdleVideo.stat.mtime

\* C19: Whisper is called only for a video whose .wav is there, and the
\* .json is written only for a video whose .txt is there.
C19_Step(v) ==
    /\ (vid[v].pc = "transcribe" /\ vid'[v].ext > vid[v].ext) => vid[v].wav # "absent"
    /\ vid'[v].json # vid[v].json => vid[v].txt # "absent"

C19_StageOrder ==
    /\ [](\A v \in DOMAIN vid :
            /\ vid[v].pc = "transcribe" => vid[v].wav # "absent"
            /\ vid[v].pc = "package" => vid[v].txt # "absent"
            /\ vid[v].json # "absent" => vid[v].txt # "absent")
    /\ [][\A v \in DOMAIN vid : C19_Step(v)]_vars

\* One worker ran all three stages in one scan: ffmpeg, Whisper, package.
C19_Witness ==
    \E v \in DOMAIN vid :
        /\ vid[v].outcome = "packaged" /\ vid[v].ext = 2 /\ vid[v].wr = 3
        /\ Sidecars(vid[v]) = <<"complete", "complete", "complete">>

\* C20: when Whisper raises, the worker ends as failed with the .wav kept
\* and neither .txt nor .json written; the step changes no sidecar, no
\* other video and not the pool.
C20_Step(v) ==
    (vid[v].err # "whisper" /\ vid'[v].err = "whisper") =>
        /\ vid[v].pc = "transcribe"
        /\ Sidecars(vid'[v]) = Sidecars(vid[v])
        /\ vid'[v].wr = vid[v].wr
        /\ pool' = pool
        /\ \A w \in DOMAIN vid \ {v} : vid'[w] = vid[w]

C20_TranscriberFailure ==
    /\ [](\A v \in DOMAIN vid :
            vid[v].err = "whisper" =>
                /\ vid[v].pc = "done" /\ vid[v].outcome = "failed"
                /\ vid[v].wav # "absent"
                /\ vid[v].txt = "absent" /\ vid[v].json = "absent")
    /\ [][\A v \in DOMAIN vid : C20_Step(v)]_vars

\* Whisper raised for one video and the scan returned.
C20_Witness ==
    /\ pool.pc = "returned"
    /\ \E v \in DOMAIN vid :
         /\ vid[v].err = "whisper" /\ vid[v].wav = "complete"
         /\ vid[v].txt = "absent"

\* C21: what a worker does at each stage depends only on which sidecars
\* exist: ffmpeg runs exactly when there is no .wav, Whisper exactly when
\* there is no .txt, a stage is entered only while there is no .json, and
\* an existing .wav or .txt is never written again.
C21_Step(v) ==
    /\ (vid[v].pc = "extract" /\ vid'[v].pc # "extract") =>
          ((vid'[v].ext > vid[v].ext) <=> (vid[v].wav = "absent"))
    /\ (vid[v].pc = "transcribe" /\ vid'[v].pc # "transcribe") =>
          ((vid'[v].ext > vid[v].ext) <=> (vid[v].txt = "absent"))
    /\ (vid[v].pc # "extract" /\ vid'[v].pc = "extract") => vid[v].json = "absent"
    /\ vid'[v].wav # vid[v].wav => vid[v].wav = "absent"
    /\ vid'[v].txt # vid[v].txt => vid[v].txt = "absent"

C21_ResumeFromSidecars ==
    [][\A v \in DOMAIN vid : C21_Step(v)]_vars

\* A re-scan after an earlier failure found the .wav, skipped ffmpeg, and
\* ran Whisper and the packaging only.
C21_Witness ==
    \E v \in DOMAIN vid :
        /\ vid[v].outcome = "packaged" /\ vid[v].ext = 1 /\ vid[v].wr = 2
        /\ Sidecars(vid[v]) = <<"complete", "complete", "complete">>

\* C26: a scan that ran to its end exits with status 0, whatever failed;
\* a non-zero status occurs only when check_prerequisites ended the run.
C26_ExitStatus ==
    /\ pool.pc = "returned" => pool.exit = 0
    /\ pool.exit # 0 => pool.pc = "aborted"

\* A scan returned with exit status 0 although a video failed.
C26_Witness ==
    /\ pool.pc = "returned" /\ pool.exit = 0
    /\ \E v \in DOMAIN vid : vid[v].outcome = "failed"

\* C28: a worker that has ended has packaged its video, or deferred or
\* skipped it with the log line that says why, or failed with an error
\* line; none has ended with neither a sidecar written nor a line logged.
C28_NoSilentDrop ==
    \A v \in DOMAIN vid :
        vid[v].pc = "done" =>
            /\ vid[v].outcome \in {"packaged", "deferred", "already", "skipped", "failed"}
            /\ vid[v].outcome = "packaged" => vid[v].wr >= 1 /\ vid[v].log = "wrote"
            /\ vid[v].outcome = "deferred" => vid[v].log = "unstable"
            /\ vid[v].outcome = "already" => vid[v].log = "already"
            /\ vid[v].outcome = "skipped" => vid[v].log = "temp"
            /\ vid[v].outcome = "failed" => vid[v].log \in {"extract_failed", "unexpected"}
            /\ vid[v].wr > 0 \/ vid[v].log # "none"

\* One worker failed at ffmpeg having written nothing, another deferred
\* its video; both left their log line.
C28_Witness ==
    \E v, w \in DOMAIN vid :
        /\ vid[v].outcome = "failed" /\ vid[v].wr = 0 /\ vid[v].log = "extract_failed"
        /\ vid[w].outcome = "deferred" /\ vid[w].log = "unstable"

\* C30: in one run each discovered video is submitted once and taken by
\* one worker: never has a second worker started on a video.
C30_OneWorkerPerVideo ==
    \A v \in DOMAIN vid :
        /\ vid[v].started <= 1
        /\ vid[v].tasks + vid[v].started <= 1
        /\ v \in InFlight(vid) => vid[v].started = 1
        /\ (pool.pc = "running" /\ vid[v].pc # "idle") =>
              vid[v].tasks + vid[v].started = 1

\* Two workers are busy at once, each on a video of its own.
C30_Witness ==
    \E v, w \in DOMAIN vid :
        /\ v # w
        /\ {v, w} \subseteq InFlight(vid)
        /\ vid[v].started = 1 /\ vid[w].started = 1
        /\ vid[v].pc = "extract" /\ vid[w].pc = "extract"

----------------------------------------------------------------------------
(* Claims about the hand-off list (SpecMessages)                           *)

Lines(file) == {file[i] : i \in 1..Len(file)}

\* C10: no step of process_messages removes a line from the hand-off list:
\* every directory listed before the step is listed after it.
C10_HandoffAppendOnly ==
    [][Lines(handoff) \subseteq Lines(handoff')]_vars

NoDuplicates(seq) == \A i, j \in 1..Len(seq) : seq[i] = seq[j] => i = j

\* C22: factcheck_dirs never holds a directory twice, the list written at
\* the end of a run is factcheck_dirs, and so each flagged directory is on
\* the written list exactly once.
C22_WriteStep ==
    (run.pc = "loop" /\ run'.pc = "idle" /\ run.dirs # <<>>) => handoff' = run.dirs

C22_HandoffDeduplicated ==
    /\ [](NoDuplicates(run.dirs) /\ NoDuplicates(handoff))
    /\ [][C22_WriteStep]_vars

\* One message was delivered, both of its urls were downloaded into the
\* same flagged directory, and the written list names it once.
C22_Witness ==
    /\ run.pc = "idle"
    /\ run.budget = MaxMsgs - 1
    /\ Len(ledger) = 2
    /\ Len(handoff) = 1

C34_MarkStep ==
    (run.pc = "loop" /\ run'.dirs # run.dirs) =>
        /\ run.todo # <<>>
        /\ run'.last.url = Head(run.todo) /\ run'.last.success
        /\ run.sender \in run.approved
        /\ ~SubjectFacts[run.subject].is_response
        /\ contains(lower(run.subject), lower(FACTCHECK_KEYWORD))
        /\ run'.dirs = Append(run.dirs, OutputDir(strip(run.subject, Whitespace)))

C34_ListStep ==
    handoff' # handoff => (run.pc = "loop" /\ Lines(handoff') \subseteq Lines(run.dirs))

C34_HandoffMembership ==
    /\ [](run.pc = "idle" => run.dirs = <<>> \/ Lines(run.dirs) \subseteq Lines(handoff))
    /\ [][C34_MarkStep /\ C34_ListStep]_vars

\* A run has listed one directory; of the two different urls it logged
\* only one reached the ledger.
C34_Witness ==
    /\ run.pc = "idle"
    /\ Len(handoff) = 1
    /\ Len(urlLog) = 2 /\ urlLog[1] # urlLog[2]
    /\ Len(ledger) = 1

\* C35: the step that filters a message whose lower-cased From address is
\* not in approved_senders changes neither the URL log, the ledger, the
\* hand-off list nor factcheck_dirs and queues no url for download; a run
\* with an empty approved_senders changes none of them in any step.
C35_GateStep ==
    (run.pc = "fetched" /\ lower(run.msg.from) \notin run.approved) =>
        /\ urlLog' = urlLog /\ ledger' = ledger /\ handoff' = handoff
        /\ run'.dirs = run.dirs /\ run'.todo = <<>>
        /\ run'.note = "not approved"

C35_EmptyListStep ==
    (run.pc # "idle" /\ run.approved = {}) =>
        /\ urlLog' = urlLog /\ ledger' = ledger /\ handoff' = handoff
        /\ run'.dirs = <<>> /\ run'.todo = <<>>

C38_FilterStep ==
    (/\ run.pc = "fetched"
     /\ run.msg.subject \in ResponseSubjects
     /\ lower(run.msg.from) \in run.approved) => run'.note = "response"

C38_ResponseSkipped == [][C38_FilterStep]_vars

----------------------------------------------------------------------------
(* Claims about start-up and the consumer (SpecConsumer)                   *)

\* C27: a run that ends for a missing tool or library has touched nothing:
\* the step that aborts process_videos, and the step that aborts the
\* consumer, change no video, no sidecar and no list; the consumer has
\* then read no list and discovered no video, and the scan has queued none.
C27_AbortStep ==
    /\ (pool.pc # "aborted" /\ pool'.pc = "aborted") =>
          vid' = vid /\ handoff' = handoff
    /\ (cons.pc # "aborted" /\ cons'.pc = "aborted") =>
          vid' = vid /\ handoff' = handoff

C27_AbortBeforeWork ==
    /\ [](/\ cons.pc = "aborted" => cons.dirs = <<>> /\ cons.todo = <<>>
          /\ pool.pc = "aborted" =>
                \A v \in DOMAIN vid : vid[v].pc \in {"idle", "done"})
    /\ [][C27_AbortStep]_vars

\* Both programs were started without their tools over a directory with
\* a non-empty list and unprocessed videos: nothing was read or written.
C27_Witness ==
    /\ cons.pc = "aborted" /\ pool.pc = "aborted"
    /\ handoff # <<>>
    /\ \A v \in DOMAIN vid :
         vid[v].pc = "idle" /\ Sidecars(vid[v]) = <<"absent", "absent", "absent">>

\* C29: the consumer's run does not end while a listed video is still to
\* be processed.
C29_ConsumerContinues ==
    cons.pc # "running" => cons.todo = <<>>

----------------------------------------------------------------------------
(* Claims about the utilities (SpecNames, SpecDedup)                       *)

\* is the string made of white space only (or empty)?
IsBlank(str) == \A i \in 1..Len(str) : str[i] \in Whitespace

\* C33: what safe_filename returns is not empty, has at most max_length
\* characters and none of \ / * ? : " < > |, is "untitled" for an empty or
\* blank input, and neither starts nor ends with a dot or a space.
C33_SafeFilenameContract ==
    fname.pc = "returned" =>
        LET result == fname.result IN
        /\ result # <<>>
        /\ Len(result) <= fname.max_length
        /\ \A i \in 1..Len(result) : result[i] \notin Forbidden
        /\ IsBlank(fname.input_str) => result = Untitled
        /\ result[1] \notin {".", " "}
        /\ result[Len(result)] \notin {".", " "}

\* the files that remain with digest h
Remaining(h) == {p \in DOMAIN tree.files : tree.files[p] = h}

\* the files that had digest h before the run
Had(h) == {p \in DOMAIN tree.before : tree.before[p] = h}

\* the longest of the paths, the smallest string among the longest
Longest(paths) ==
    CHOOSE p \in paths : \A q \in paths \ {p} :
        Len(p) > Len(q) \/ (Len(p) = Len(q) /\ StrLess(p, q))

\* Of every digest that had a file exactly one file remains, the one with
\* the longest path; no file has changed and one alone in its digest is kept.
OneOfEach ==
    /\ \A p \in DOMAIN tree.files : p \in DOMAIN tree.before /\ tree.files[p] = tree.before[p]
    /\ \A h \in Hashes : Had(h) # {} => Remaining(h) = {Longest(Had(h))}

----------------------------------------------------------------------------
(* Claims about repeated scans (SpecConverge)                              *)

\* C36: under repeated scans with transient failures every video comes to
\* have, and then keeps, a complete .json package beside a complete .wav
\* and a complete .txt.
C36_Converges ==
    \A v \in ListedVideos :
        <>[](/\ vid[v].json = "complete"
             /\ vid[v].wav = "complete"
             /\ vid[v].txt = "complete")

====
